---- MODULE Spec2Model ----
(***************************************************************************)
(* Lorenz_system.ipynb as a state machine: the notebook's global names are *)
(* the variables, each code cell (or statement group of a cell) is one     *)
(* action, and pc is the next cell of a top-to-bottom run.                  *)
(*                                                                         *)
(* Numbers.  States, parameters and grid times are integers (a fixed-point *)
(* unit: the reference grid linspace(0, 30, 3001) is 0, 1, ..., 3000 in     *)
(* hundredths).  A standardized value is irrational, so a matrix is kept   *)
(* as integer numerators num plus one radicand per column: the entry in    *)
(* column j is num[i][j] / sqrt(rad[j]).  Products of such columns and     *)
(* their standardization stay in this form, so the scalers are exact.      *)
(***************************************************************************)
EXTENDS Integers, Sequences, FiniteSets, TLC

\* ---------------------------------------------------------------- bounds
MaxNum == 6        \* longest time grid (number of samples)
MaxMag == 2        \* largest |component| the solver's step budget can follow

\* pandas / numpy missing value (float NaN), kept apart from every number
NaN == 99

\* polynomial degree of the regression pipeline
degree == 2

\* the length of the slices x[-600:] and z[-600:]
SliceLen == 600

VARIABLES
    pc,         \* next cell of the run, or "error" after an exception
    w0, t, sigma, rho, beta,      \* cell "Initial conditions ..."
    sol, odeint_istate,           \* odeint's result and LSODA's last istate
    warned,                       \* an ODEintWarning was issued (and only that)
    sol_rerun,                    \* result of a second, identical odeint call
    x, y, z,                      \* globals of the time-series cell
    df, X, Y,
    X_train, X_test, Y_train, Y_test,
    split,                        \* the index arrays train_test_split drew
    scaler, pipeline,
    y_hat, rmse,                  \* y_hat_for_x/y/z and rmse_for_x/y/z, by target
    x_sliced, z_sliced,
    call                          \* one evaluation of lorenz: arguments and result

vars == <<pc, w0, t, sigma, rho, beta, sol, odeint_istate, warned, sol_rerun,
          x, y, z, df, X, Y, X_train, X_test, Y_train, Y_test, split,
          scaler, pipeline, y_hat, rmse, x_sliced, z_sliced, call>>

\* ---------------------------------------------------------------- helpers
Abs(a) == IF a < 0 THEN -a ELSE a

Range(s) == {s[i] : i \in DOMAIN s}

RECURSIVE SumSeq(_)
SumSeq(s) == IF s = <<>> THEN 0 ELSE Head(s) + SumSeq(Tail(s))

\* a function on 1..n as the tuple it is
Tup(f) == f \o <<>>

Col(rows, j) == Tup([i \in DOMAIN rows |-> rows[i][j]])

Sq(s) == Tup([i \in DOMAIN s |-> s[i] * s[i]])

\* a name that has not been assigned yet
Unset == <<>>

\* ---------------------------------------------------------------- lorenz
\* a field whose first component has the opposite sign
lorenz_signflip(w, tt, sg, rh, bt) ==
    LET xx == w[1]
        yy == w[2]
        zz == w[3]
    IN  <<sg * (xx - yy), xx * (rh - zz) - yy, xx * yy - bt * zz>>

\* a field whose second component lost the factor x of x * (rho - z)
lorenz_dropx(w, tt, sg, rh, bt) ==
    LET xx == w[1]
        yy == w[2]
        zz == w[3]
    IN  <<sg * (yy - xx), (rh - zz) - yy, xx * yy - bt * zz>>

\* def lorenz(w, t, sigma, rho, beta): x, y, z = w; return dwdt
lorenz(w, tt, sg, rh, bt) ==
    LET xx == w[1]
        yy == w[2]
        zz == w[3]
    IN  <<sg * (yy - xx), xx * (rh - zz) - yy, xx * yy - bt * zz>>

\* ---------------------------------------------------------------- grid
\* a grid that runs from stop down to start
linspace_descending(start, stop, num) ==
    IF num = 1 THEN <<start>>
    ELSE Tup([i \in 1..num |-> stop - ((i - 1) * (stop - start)) \div (num - 1)])

\* np.linspace(start, stop, num): num samples, both ends included
linspace(start, stop, num) ==
    IF num = 1 THEN <<start>>
    ELSE Tup([i \in 1..num |-> start + ((i - 1) * (stop - start)) \div (num - 1)])

\* ---------------------------------------------------------------- odeint
\* One output interval of LSODA, from state yy at time ta to time tb.  The
\* adaptive multistep method is abstracted to one explicit step of the
\* vector field over the interval; it calls func with args and nothing else.
lsoda_advance(func_args, yy, ta, tb) ==
    LET f == lorenz(yy, ta, func_args[1], func_args[2], func_args[3])
    IN  Tup([j \in 1..3 |-> yy[j] + (tb - ta) * f[j]])

\* LSODA returns istate = 2 when it reached tout and a negative istate
\* (-1: excess work, more than mxstep internal steps) when it gave up.
lsoda_istate(ynew) ==
    IF \A j \in 1..3 : Abs(ynew[j]) <= MaxMag THEN 2 ELSE -1

\* The C loop of odeint: row 0 is y0; while k < ntimes and istate > 0 it
\* advances to t[k] and copies y into row k.  On failure y is left where the
\* last accepted internal step put it (here: the previous row) and the loop
\* stops; the rows after it are never written.
RECURSIVE odeint_rows(_, _, _, _)
odeint_rows(args, tgrid, rows, istate) ==
    LET k == Len(rows) + 1
    IN  IF k > Len(tgrid) \/ istate <= 0 THEN [rows |-> rows, istate |-> istate]
        ELSE LET ynew == lsoda_advance(args, rows[k - 1], tgrid[k - 1], tgrid[k])
                 ist == lsoda_istate(ynew)
             IN  odeint_rows(args, tgrid,
                             Append(rows, IF ist > 0 THEN ynew ELSE rows[k - 1]),
                             ist)

\* what never-written rows of the freshly allocated output array may hold
UninitRows == {<<0, NaN, 1>>, <<1, 0, 1>>}

\* the set of arrays odeint(lorenz, y0, tgrid, args) can return, with istate
odeint(y0, tgrid, args) ==
    LET r == odeint_rows(args, tgrid, <<y0>>, 2)
        n == Len(tgrid) - Len(r.rows)
    IN  {[rows |-> r.rows \o tail, istate |-> r.istate] :
            tail \in [1..n -> UninitRows]}

\* ---------------------------------------------------------------- dataset
\* pd.DataFrame(sol, columns=['x','y','z']); df['t'] = t; df[['t','x','y','z']]
\* idx is the row label (RangeIndex 0..N-1).
DataFrame(sol_, t_) ==
    Tup([i \in 1..Len(sol_) |->
           [idx |-> i - 1, t |-> t_[i],
            x |-> sol_[i][1], y |-> sol_[i][2], z |-> sol_[i][3]]])

\* Series.shift(periods): the value at position i moves to i + periods and
\* the vacated positions hold NaN
shift(col, periods) ==
    Tup([i \in DOMAIN col |->
           IF i - periods \in DOMAIN col THEN col[i - periods] ELSE NaN])

\* df['x_future'] = df['x'].shift(-1), and the same for y and z
add_future(d) ==
    LET fx == shift(Tup([i \in DOMAIN d |-> d[i].x]), -1)
        fy == shift(Tup([i \in DOMAIN d |-> d[i].y]), -1)
        fz == shift(Tup([i \in DOMAIN d |-> d[i].z]), -1)
    IN  Tup([i \in DOMAIN d |->
               [idx |-> d[i].idx, t |-> d[i].t,
                x |-> d[i].x, y |-> d[i].y, z |-> d[i].z,
                x_future |-> fx[i], y_future |-> fy[i], z_future |-> fz[i]]])

isna(row) ==
    NaN \in {row.t, row.x, row.y, row.z, row.x_future, row.y_future, row.z_future}

\* DataFrame.dropna(): every row holding a NaN in any column goes; the
\* remaining rows keep their order and their labels
dropna(d) == SelectSeq(d, LAMBDA row : ~isna(row))

\* df[['x','y','z']] or df[['x_future','y_future','z_future']]: a frame of
\* three columns that keeps the row labels
features_of(d) ==
    [idx |-> Tup([i \in DOMAIN d |-> d[i].idx]),
     num |-> Tup([i \in DOMAIN d |-> <<d[i].x, d[i].y, d[i].z>>]),
     rad |-> <<1, 1, 1>>]

targets_of(d) ==
    [idx |-> Tup([i \in DOMAIN d |-> d[i].idx]),
     num |-> Tup([i \in DOMAIN d |-> <<d[i].x_future, d[i].y_future, d[i].z_future>>]),
     rad |-> <<1, 1, 1>>]

\* ---------------------------------------------------------------- split
RECURSIVE Perms(_)
Perms(S) ==
    IF S = {} THEN {<<>>}
    ELSE UNION {{<<e>> \o p : p \in Perms(S \ {e})} : e \in S}

\* _validate_shuffle_split with test_size=0.2: n_test = ceil(0.2 * n)
n_test_of(n) == (2 * n + 9) \div 10

\* n_train = n_samples - n_test (train_size is None)
n_train_of(n) == n - n_test_of(n)

\* ShuffleSplit._iter_indices: the first n_test entries of the permutation
\* are the test indices and the next n_train the train indices
ind_test(perm) == SubSeq(perm, 1, n_test_of(Len(perm)))

\* a training slice that starts one position early, on the last test row
ind_train_overlap(perm) == SubSeq(perm, n_test_of(Len(perm)), Len(perm))

ind_train(perm) ==
    SubSeq(perm, n_test_of(Len(perm)) + 1, n_test_of(Len(perm)) + n_train_of(Len(perm)))

\* _safe_indexing(frame, indices): the rows at those positions, in that order
take(F, ind) ==
    [idx |-> Tup([i \in DOMAIN ind |-> F.idx[ind[i]]]),
     num |-> Tup([i \in DOMAIN ind |-> F.num[ind[i]]]),
     rad |-> F.rad]

\* ---------------------------------------------------------------- scaler
Width(M) == Len(M.rad)

\* StandardScaler.fit: per column the count, the sum S and
\* D = n * sum(v^2) - S^2 of the numerators; mean_ = S / (n sqrt(rad)) and
\* scale_ = sqrt(D) / (n sqrt(rad)), or 1 where the column is constant (D = 0)
StandardScaler_fit(M) ==
    LET n == Len(M.num)
        colsum == Tup([j \in 1..Width(M) |-> SumSeq(Col(M.num, j))])
        colsq == Tup([j \in 1..Width(M) |-> SumSeq(Sq(Col(M.num, j)))])
    IN  [fitted |-> TRUE,
         n |-> n,
         S |-> colsum,
         D |-> Tup([j \in 1..Width(M) |-> n * colsq[j] - colsum[j] * colsum[j]]),
         rad |-> M.rad]

\* a scaler that divides by scale_ without subtracting mean_
standardize_nocenter(sc, M) ==
    [num |-> Tup([i \in DOMAIN M.num |->
                Tup([j \in 1..Width(M) |-> sc.n * M.num[i][j]])]),
     rad |-> Tup([j \in 1..Width(M) |->
                IF sc.D[j] # 0 THEN sc.D[j] ELSE sc.n * sc.n * M.rad[j]])]

\* (v - mean_) / scale_ of every entry, with the fitted parameters sc
standardize(sc, M) ==
    [num |-> Tup([i \in DOMAIN M.num |->
                Tup([j \in 1..Width(M) |-> sc.n * M.num[i][j] - sc.S[j]])]),
     rad |-> Tup([j \in 1..Width(M) |->
                IF sc.D[j] # 0 THEN sc.D[j] ELSE sc.n * sc.n * M.rad[j]])]

\* what scaler.fit_transform(M) returns: M standardized with the parameters
\* fitted on M itself (the scaler then holds StandardScaler_fit(M))
StandardScaler_fit_transform(M) == standardize(StandardScaler_fit(M), M)

\* a transform that fits on the rows it is given instead of using sc
StandardScaler_refit_transform(sc, M) == standardize(StandardScaler_fit(M), M)

\* what scaler.transform(M) returns: M standardized with the parameters sc
\* fitted before, which it leaves as they are
StandardScaler_transform(sc, M) == standardize(sc, M)

\* ---------------------------------------------------------------- pipeline
\* combinations_with_replacement(range(3), d), in sklearn's column order
RECURSIVE Combos(_, _)
Combos(d, lo) ==
    IF d = 0 THEN << <<>> >>
    ELSE LET from(f) == Tup([i \in DOMAIN Combos(d - 1, f) |-> <<f>> \o Combos(d - 1, f)[i]])
         IN  IF lo = 3 THEN from(3)
             ELSE from(lo) \o Combos(d, lo + 1)

\* PolynomialFeatures(degree=deg).powers_: the bias column first, then the
\* monomials of total degree 1, 2, ..., deg (include_bias defaults to True)
RECURSIVE powers(_)
powers(deg) ==
    IF deg = 0 THEN Combos(0, 1) ELSE powers(deg - 1) \o Combos(deg, 1)

RECURSIVE Prod(_, _)
Prod(row, c) == IF c = <<>> THEN 1 ELSE row[Head(c)] * Prod(row, Tail(c))

\* powers_ for every degree up to the pipeline's
PowersTable == Tup([d \in 1..(degree + 1) |-> powers(d - 1)])

\* PolynomialFeatures.transform: one column per monomial
poly_features(deg, M) ==
    LET pw == PowersTable[deg + 1]
    IN  [num |-> Tup([i \in DOMAIN M.num |->
                    Tup([j \in DOMAIN pw |-> Prod(M.num[i], pw[j])])]),
         rad |-> Tup([j \in DOMAIN pw |-> Prod(M.rad, pw[j])])]

\* a regression fitted without an intercept (intercept_ = 0)
LinearRegression_fit_nointercept(Z, yv, target) ==
    [fitted |-> TRUE,
     target |-> target,
     n_samples |-> Len(Z.num),
     n_features |-> Width(Z),
     intercept |-> [num |-> 0, den |-> Len(yv)],
     coef_from |-> [Z |-> Z, yv |-> yv]]

\* LinearRegression.fit(Z, yv): scipy.linalg.lstsq, which returns the
\* minimum-norm least-squares solution whatever the rank of Z; it raises
\* nothing for a rank-deficient or under-determined Z.  The columns of the
\* scaled training matrix have mean 0, so intercept_ is the mean of yv
\* (kept as the fraction sum / n); coef_ is kept by what it was solved from.
LinearRegression_fit(Z, yv, target) ==
    [fitted |-> TRUE,
     target |-> target,
     n_samples |-> Len(Z.num),
     n_features |-> Width(Z),
     intercept |-> [num |-> SumSeq(yv), den |-> Len(yv)],
     coef_from |-> [Z |-> Z, yv |-> yv]]

\* pipeline.fit(Xf, yv): poly_features.fit_transform, scaler.fit_transform,
\* model.fit, each on the output of the one before
Pipeline_fit(deg, Xf, yv, target) ==
    [degree |-> deg,
     scaler |-> StandardScaler_fit(poly_features(deg, Xf)),
     model |-> LinearRegression_fit(StandardScaler_fit_transform(poly_features(deg, Xf)),
                                    yv, target)]

\* pipeline.predict(Xf): poly_features.transform, scaler.transform, then
\* model.predict on the result: one prediction per row
Pipeline_predict(pl, Xf) ==
    [by |-> pl.model.target,
     intercept |-> pl.model.intercept,
     Z |-> StandardScaler_transform(pl.scaler, poly_features(pl.degree, Xf)),
     rows |-> Len(Xf.num)]

\* model.predict, row i: Z[i] @ coef_ + intercept_.  coef_ is finite, so a row
\* of zeros gives intercept_ itself; any other row gives a value that depends
\* on coef_ and is kept as the pair of the intercept and the row.
predict_row(yh, i) ==
    IF \A j \in DOMAIN yh.Z.num[i] : yh.Z.num[i][j] = 0
    THEN yh.intercept
    ELSE [intercept |-> yh.intercept, row |-> yh.Z.num[i]]

\* np.sqrt(mean_squared_error(y_true, y_pred)), kept by its two arguments
rmse_of(y_true, y_pred) == [y_true |-> y_true, y_pred |-> y_pred]

\* a[-k:]: the last k entries, all of a when it has fewer
last(a, k) == IF Len(a) <= k THEN a ELSE SubSeq(a, Len(a) - k + 1, Len(a))

\* ---------------------------------------------------------------- run
InitialStates == {<<1, 0, 0>>, <<1, 1, 1>>}
Sigmas == {0, 1}
Rhos == {1, 2}
Betas == {1}
Spacings == {1, 2}

NoCall == [w |-> <<0, 0, 0>>, t |-> 0, sigma |-> 0, rho |-> 0, beta |-> 0,
           dwdt |-> Unset]

Targets == {"x_future", "y_future", "z_future"}

\* everything the later cells assign, before they run
Later ==
    /\ sol = Unset /\ odeint_istate = 0 /\ warned = FALSE /\ sol_rerun = Unset
    /\ x = Unset /\ y = Unset /\ z = Unset
    /\ df = Unset /\ X = Unset /\ Y = Unset
    /\ X_train = Unset /\ X_test = Unset /\ Y_train = Unset /\ Y_test = Unset
    /\ split = Unset
    /\ scaler = [fitted |-> FALSE]
    /\ pipeline = Unset
    /\ y_hat = [c \in Targets |-> Unset]
    /\ rmse = [c \in Targets |-> Unset]
    /\ x_sliced = Unset /\ z_sliced = Unset

\* The state after the cell that sets w0, t and the parameters.  The cell's
\* literals ((1,0,0), linspace(0,30,3001), 10, 28, 2.2) are drawn from small
\* sets instead; the grid starts at 0 and has num samples spaced h apart.
Init ==
    /\ pc = "solve"
    /\ w0 \in InitialStates
    /\ sigma \in Sigmas /\ rho \in Rhos /\ beta \in Betas
    /\ \E num \in 1..MaxNum, h \in Spacings : t = linspace(0, h * (num - 1), num)
    /\ call = NoCall
    /\ Later

\* sol = odeint(lorenz, w0, t, args=(sigma, rho, beta)).  The Python wrapper
\* warns (ODEintWarning) when the last istate is negative and returns the
\* array all the same.
Solve ==
    /\ pc = "solve"
    /\ \E r \in odeint(w0, t, <<sigma, rho, beta>>) :
          /\ sol' = r.rows
          /\ odeint_istate' = r.istate
          /\ warned' = (r.istate < 0)
    /\ pc' = "timeseries"
    /\ UNCHANGED <<w0, t, sigma, rho, beta, sol_rerun, x, y, z, df, X, Y,
                   X_train, X_test, Y_train, Y_test, split, scaler, pipeline,
                   y_hat, rmse, x_sliced, z_sliced, call>>

\* a plot cell that centres x through the view it took of sol (x -= x[0]),
\* which writes column 0 of sol
TimeSeries_writes_view ==
    /\ pc = "timeseries"
    /\ sol' = Tup([k \in DOMAIN sol |-> <<sol[k][1] - sol[1][1], sol[k][2], sol[k][3]>>])
    /\ x' = Col(sol', 1) /\ y' = Col(sol', 2) /\ z' = Col(sol', 3)
    /\ pc' = "trajectory"
    /\ UNCHANGED <<w0, t, sigma, rho, beta, odeint_istate, warned, sol_rerun,
                   df, X, Y, X_train, X_test, Y_train, Y_test, split, scaler,
                   pipeline, y_hat, rmse, x_sliced, z_sliced, call>>

\* x, y, z = sol[:, 0], sol[:, 1], sol[:, 2]; the three time-series plots
TimeSeries ==
    /\ pc = "timeseries"
    /\ x' = Col(sol, 1) /\ y' = Col(sol, 2) /\ z' = Col(sol, 3)
    /\ pc' = "trajectory"
    /\ UNCHANGED <<w0, t, sigma, rho, beta, sol, odeint_istate, warned, sol_rerun,
                   df, X, Y, X_train, X_test, Y_train, Y_test, split, scaler,
                   pipeline, y_hat, rmse, x_sliced, z_sliced, call>>

\* the projection plots, the 3D plot, the animation and ani.save: they read
\* x, y, z and t and assign only figure objects
TrajectoryPlots ==
    /\ pc = "trajectory"
    /\ pc' = "table"
    /\ UNCHANGED <<w0, t, sigma, rho, beta, sol, odeint_istate, warned, sol_rerun,
                   x, y, z, df, X, Y, X_train, X_test, Y_train, Y_test, split,
                   scaler, pipeline, y_hat, rmse, x_sliced, z_sliced, call>>

\* df = pd.DataFrame(sol, ...); df['t'] = t; df = df[['t','x','y','z']]
BuildTable ==
    /\ pc = "table"
    /\ df' = DataFrame(sol, t)
    /\ pc' = "shift"
    /\ UNCHANGED <<w0, t, sigma, rho, beta, sol, odeint_istate, warned, sol_rerun,
                   x, y, z, X, Y, X_train, X_test, Y_train, Y_test, split,
                   scaler, pipeline, y_hat, rmse, x_sliced, z_sliced, call>>

\* the three shift(-1) columns, then df = df.dropna()
ShiftDrop ==
    /\ pc = "shift"
    /\ df' = dropna(add_future(df))
    /\ pc' = "split"
    /\ UNCHANGED <<w0, t, sigma, rho, beta, sol, odeint_istate, warned, sol_rerun,
                   x, y, z, X, Y, X_train, X_test, Y_train, Y_test, split,
                   scaler, pipeline, y_hat, rmse, x_sliced, z_sliced, call>>

\* The split-and-scale cell.  X = df[[...]]; Y = df[[...]];
\* train_test_split(X, Y, test_size=0.2, random_state=42), which raises
\* ValueError when there is no sample or the train set would be empty; then
\* scaler = StandardScaler(); X_train = scaler.fit_transform(X_train);
\* X_test = scaler.transform(X_test).  The permutation a seeded RandomState
\* draws is a fixed function of n that is not computed here: any permutation
\* may be it.
SplitScale ==
    /\ pc = "split"
    /\ X' = features_of(df)
    /\ Y' = targets_of(df)
    /\ IF Len(df) = 0 \/ n_train_of(Len(df)) = 0
       THEN /\ pc' = "error"
            /\ UNCHANGED <<split, X_train, X_test, Y_train, Y_test, scaler>>
       ELSE /\ \E perm \in Perms(1..Len(df)) :
                 /\ split' = [test |-> ind_test(perm), train |-> ind_train(perm)]
                 /\ Y_train' = take(Y', ind_train(perm))
                 /\ Y_test' = take(Y', ind_test(perm))
                 /\ scaler' = StandardScaler_fit(take(X', ind_train(perm)))
                 /\ X_train' = StandardScaler_fit_transform(take(X', ind_train(perm)))
                 /\ X_test' = StandardScaler_transform(scaler', take(X', ind_test(perm)))
            /\ pc' = "frames"
    /\ UNCHANGED <<w0, t, sigma, rho, beta, sol, odeint_istate, warned, sol_rerun,
                   x, y, z, df, pipeline, y_hat, rmse, x_sliced, z_sliced, call>>

\* pd.DataFrame(array, columns=...): a fresh RangeIndex 0..n-1
frame_of_array(A) ==
    [idx |-> Tup([i \in DOMAIN A.num |-> i - 1]), num |-> A.num, rad |-> A.rad]

\* a conversion that also puts the rows in the order of their labels
\* (sort_index), which undoes the shuffle for the frame it is applied to
frame_of_frame_sorted(F) ==
    [idx |-> Tup([p \in DOMAIN F.idx |->
                F.idx[CHOOSE i \in DOMAIN F.idx :
                        Cardinality({k \in DOMAIN F.idx : F.idx[k] <= F.idx[i]}) = p]]),
     num |-> Tup([p \in DOMAIN F.idx |->
                F.num[CHOOSE i \in DOMAIN F.idx :
                        Cardinality({k \in DOMAIN F.idx : F.idx[k] <= F.idx[i]}) = p]]),
     rad |-> F.rad]

\* pd.DataFrame(frame, columns=<its own columns>): the same rows and labels
frame_of_frame(F) == F

\* the four conversions back to pd.DataFrame
ToFrames ==
    /\ pc = "frames"
    /\ X_train' = frame_of_array(X_train)
    /\ X_test' = frame_of_array(X_test)
    /\ Y_train' = frame_of_frame(Y_train)
    /\ Y_test' = frame_of_frame(Y_test)
    /\ pc' = "regress_x"
    /\ UNCHANGED <<w0, t, sigma, rho, beta, sol, odeint_istate, warned, sol_rerun,
                   x, y, z, df, X, Y, split, scaler, pipeline, y_hat, rmse,
                   x_sliced, z_sliced, call>>

TargetColumn == [x_future |-> 1, y_future |-> 2, z_future |-> 3]

\* a regression cell that predicts before it refits: the y and z cells then
\* predict with the fit the cell before them left in the pipeline
RegressionCell_predict_first(from, target, to) ==
    /\ pc = from
    /\ pipeline' = Pipeline_fit(degree, X_train, Col(Y_train.num, TargetColumn[target]), target)
    /\ y_hat' = [y_hat EXCEPT ![target] =
                    IF pipeline = Unset THEN Pipeline_predict(pipeline', X_test)
                    ELSE Pipeline_predict(pipeline, X_test)]
    /\ rmse' = [rmse EXCEPT ![target] =
                   rmse_of(Col(Y_test.num, TargetColumn[target]), y_hat'[target])]
    /\ pc' = to
    /\ UNCHANGED <<w0, t, sigma, rho, beta, sol, odeint_istate, warned, sol_rerun,
                   x, y, z, df, X, Y, X_train, X_test, Y_train, Y_test, split,
                   scaler, x_sliced, z_sliced, call>>

\* One regression cell: pipeline.fit(X_train, Y_train[target]) on the one
\* pipeline object (built in the x cell, refit in the y and z cells), then
\* y_hat_for_* = pipeline.predict(X_test) and
\* rmse_for_* = np.sqrt(mean_squared_error(Y_test[target], y_hat_for_*))
RegressionCell(from, target, to) ==
    /\ pc = from
    /\ pipeline' = Pipeline_fit(degree, X_train, Col(Y_train.num, TargetColumn[target]), target)
    /\ y_hat' = [y_hat EXCEPT ![target] = Pipeline_predict(pipeline', X_test)]
    /\ rmse' = [rmse EXCEPT ![target] =
                   rmse_of(Col(Y_test.num, TargetColumn[target]), y_hat'[target])]
    /\ pc' = to
    /\ UNCHANGED <<w0, t, sigma, rho, beta, sol, odeint_istate, warned, sol_rerun,
                   x, y, z, df, X, Y, X_train, X_test, Y_train, Y_test, split,
                   scaler, x_sliced, z_sliced, call>>

RegressX == RegressionCell("regress_x", "x_future", "regress_y")
RegressY == RegressionCell("regress_y", "y_future", "regress_z")
RegressZ == RegressionCell("regress_z", "z_future", "slice")

\* x_sliced = x[-600:]; z_sliced = z[-600:]; then the comparison animation,
\* which reads the slices and the predictions and assigns only figure objects
Slice ==
    /\ pc = "slice"
    /\ x_sliced' = last(x, SliceLen)
    /\ z_sliced' = last(z, SliceLen)
    /\ pc' = "done"
    /\ UNCHANGED <<w0, t, sigma, rho, beta, sol, odeint_istate, warned, sol_rerun,
                   x, y, z, df, X, Y, X_train, X_test, Y_train, Y_test, split,
                   scaler, pipeline, y_hat, rmse, call>>

Next ==
    \/ Solve
    \/ TimeSeries
    \/ TrajectoryPlots
    \/ BuildTable
    \/ ShiftDrop
    \/ SplitScale
    \/ ToFrames
    \/ RegressX
    \/ RegressY
    \/ RegressZ
    \/ Slice

Spec == Init /\ [][Next]_vars

\* ---------------------------------------------------------------- rerun
\* The solve cell executed a second time, after the plotting cells, with the
\* same w0, t and parameters; sol_rerun is what it would assign to sol.
SolveAgain ==
    /\ pc = "table"
    /\ sol_rerun = Unset
    /\ \E r \in odeint(w0, t, <<sigma, rho, beta>>) : sol_rerun' = r.rows
    /\ UNCHANGED <<pc, w0, t, sigma, rho, beta, sol, odeint_istate, warned,
                   x, y, z, df, X, Y, X_train, X_test, Y_train, Y_test, split,
                   scaler, pipeline, y_hat, rmse, x_sliced, z_sliced, call>>

NextRerun ==
    \/ Solve
    \/ TimeSeries
    \/ TrajectoryPlots
    \/ SolveAgain

SpecRerun == Init /\ [][NextRerun]_vars

\* ---------------------------------------------------------------- field
\* lorenz on its own: one call with arguments drawn from small sets.
FieldVals == (0 - MaxMag)..MaxMag
FieldTimes == {0, 1, 2}
FieldParams == (0 - 1)..MaxMag

InitField ==
    /\ pc = "lorenz"
    /\ w0 = <<1, 0, 0>> /\ t = <<0>> /\ sigma = 1 /\ rho = 1 /\ beta = 1
    /\ \E w \in FieldVals \X FieldVals \X FieldVals, tt \in FieldTimes,
          sg \in FieldParams, rh \in FieldParams, bt \in FieldParams :
          call = [w |-> w, t |-> tt, sigma |-> sg, rho |-> rh, beta |-> bt,
                  dwdt |-> Unset]
    /\ Later

\* call.dwdt = lorenz(call.w, call.t, call.sigma, call.rho, call.beta): the
\* body binds the locals x, y, z and builds a new list; it assigns no global
\* and does not write to w
CallLorenz ==
    /\ pc = "lorenz"
    /\ call' = [call EXCEPT !.dwdt = lorenz(call.w, call.t, call.sigma, call.rho, call.beta)]
    /\ pc' = "returned"
    /\ UNCHANGED <<w0, t, sigma, rho, beta, sol, odeint_istate, warned, sol_rerun,
                   x, y, z, df, X, Y, X_train, X_test, Y_train, Y_test, split,
                   scaler, pipeline, y_hat, rmse, x_sliced, z_sliced>>

NextField == CallLorenz

SpecField == InitField /\ [][NextField]_vars

\* ================================================================ claims
\* the dataset cell has run: df holds the shifted table after dropna
DatasetBuilt ==
    pc \notin {"lorenz", "returned", "solve", "timeseries", "trajectory", "table", "shift"}

\* C1.  Dataset Builder: a trajectory of N rows gives a dataset of exactly
\* N - 1 rows whose row i has the features state[i] and the targets
\* state[i+1]; only the last trajectory row is no feature row.
C1_DatasetAligned ==
    DatasetBuilt =>
        /\ Len(df) = Len(sol) - 1
        /\ \A i \in 1..Len(df) :
              /\ <<df[i].x, df[i].y, df[i].z>> = sol[i]
              /\ <<df[i].x_future, df[i].y_future, df[i].z_future>> = sol[i + 1]

\* C3.  Solver non-convergence is surfaced: a failed integration (negative
\* istate) ends the run in an error, and no later cell has consumed its
\* trajectory.
C3_FailureStopsRun ==
    odeint_istate < 0 => pc = "error" /\ x = Unset /\ df = Unset

\* C4.  Rank-deficient fit is reported: no fitted model exists for an
\* under-determined system (fewer training rows than expanded columns), and
\* no prediction was made with one.
C4_RankDeficientReported ==
    /\ pipeline # Unset => pipeline.model.n_samples >= pipeline.model.n_features
    /\ \A c \in Targets :
          y_hat[c] # Unset => Len(X_train.num) >= Len(y_hat[c].Z.rad)

\* C7.  Integrator determinism: a second run of the integrator on the same
\* initial state, parameters and grid returns the same trajectory.
C7_SameTrajectory ==
    sol_rerun # Unset => sol_rerun = sol

\* ---------------------------------------------------------------- C5, C6
FieldFormula(c) ==
    <<c.sigma * (c.w[2] - c.w[1]),
      c.w[1] * (c.rho - c.w[3]) - c.w[2],
      c.w[1] * c.w[2] - c.beta * c.w[3]>>

\* C5.  Vector Field: lorenz returns (sigma*(y-x), x*(rho-z)-y, x*y-beta*z)
\* in that order for every state, time and parameter set (so the time has
\* no influence), and the call changes nothing but its return value.
C5_VectorField ==
    /\ [](call.dwdt # Unset => call.dwdt = FieldFormula(call))
    /\ [][CallLorenz =>
            /\ call'.w = call.w /\ call'.t = call.t
            /\ call'.sigma = call.sigma /\ call'.rho = call.rho /\ call'.beta = call.beta
            /\ UNCHANGED <<w0, t, sigma, rho, beta, sol, x, y, z, df>>]_vars

C5_Witness ==
    /\ pc = "returned"
    /\ call.w = <<1, 2, -1>> /\ call.t = 2
    /\ call.sigma = 2 /\ call.rho = -1 /\ call.beta = 1
    /\ call.dwdt = <<2, -2, 3>>

\* C6.  Fixed point: at the origin lorenz returns (0, 0, 0) for every
\* parameter set and every time.
C6_OriginFixed ==
    (pc = "returned" /\ call.w = <<0, 0, 0>>) => call.dwdt = <<0, 0, 0>>

C6_Witness ==
    /\ pc = "returned"
    /\ call.w = <<0, 0, 0>>
    /\ call.sigma = 2 /\ call.rho = 2 /\ call.beta = -1 /\ call.t = 1
    /\ call.dwdt = <<0, 0, 0>>

\* ---------------------------------------------------------------- C8
StrictlyIncreasing(s) == \A i \in 1..(Len(s) - 1) : s[i] < s[i + 1]

\* C8.  Trajectory invariant: sol has one row per grid sample, row 0 is the
\* initial state and the grid times are strictly increasing; the (t,x,y,z)
\* table pairs row k with t[k] and sol[k], and what dropna leaves of it still
\* pairs each row with the time and state of its label, in increasing time.
C8_TrajectoryGrid ==
    /\ sol # Unset =>
          /\ Len(sol) = Len(t)
          /\ sol[1] = w0
          /\ StrictlyIncreasing(t)
    /\ pc = "shift" =>
          /\ Len(df) = Len(t)
          /\ \A k \in 1..Len(df) :
                /\ df[k].idx = k - 1
                /\ df[k].t = t[k]
                /\ <<df[k].x, df[k].y, df[k].z>> = sol[k]
          /\ StrictlyIncreasing([k \in 1..Len(df) |-> df[k].t])
    /\ DatasetBuilt =>
          /\ \A k \in 1..Len(df) :
                /\ df[k].t = t[df[k].idx + 1]
                /\ <<df[k].x, df[k].y, df[k].z>> = sol[df[k].idx + 1]
          /\ StrictlyIncreasing([k \in 1..Len(df) |-> df[k].t])

\* a full-length grid with spacing 2 went through the solver and the table
C8_Witness ==
    /\ pc = "shift"
    /\ Len(t) = MaxNum /\ t[2] = 2
    /\ odeint_istate > 0
    /\ df[MaxNum].t = 2 * (MaxNum - 1)

\* ---------------------------------------------------------------- C9
\* C9 as stated.  The split is a partition of the N samples with exactly 20%
\* of them in the evaluation subset and 80% in the training subset.
C9_ExactProportion ==
    split # Unset =>
        /\ Range(split.test) \cap Range(split.train) = {}
        /\ Range(split.test) \cup Range(split.train) = 1..Len(df)
        /\ 5 * Len(split.test) = Len(df)
        /\ 5 * Len(split.train) = 4 * Len(df)

\* C9, amended.  The split is a partition of the N samples: the two index
\* arrays are disjoint and hold every sample exactly once, and the target
\* frames are the rows they name; the evaluation subset holds ceil(N / 5)
\* samples and the training subset the other N - ceil(N / 5), which is 20% and
\* 80% exactly when 5 divides N; with fewer than 2 samples train_test_split
\* raises and there is no split.
C9_CeilProportion ==
    /\ split # Unset =>
          /\ Len(df) >= 2
          /\ Range(split.test) \cap Range(split.train) = {}
          /\ Range(split.test) \cup Range(split.train) = 1..Len(df)
          /\ Len(split.test) + Len(split.train) = Len(df)
          /\ 5 * Len(split.test) >= Len(df)
          /\ 5 * (Len(split.test) - 1) < Len(df)
          /\ Len(df) % 5 = 0 =>
                5 * Len(split.test) = Len(df) /\ 5 * Len(split.train) = 4 * Len(df)
          /\ Y_train.idx = [i \in 1..Len(split.train) |-> df[split.train[i]].idx]
          /\ Y_test.idx = [i \in 1..Len(split.test) |-> df[split.test[i]].idx]
    /\ (DatasetBuilt /\ pc # "split" /\ Len(df) < 2) => (pc = "error" /\ split = Unset)

\* five samples were split 1 to 4
C9_Witness ==
    /\ split # Unset
    /\ Len(df) = 5
    /\ Len(split.test) = 1 /\ Len(split.train) = 4

\* ---------------------------------------------------------------- C10
\* the split-and-scale cell has run without raising
Scaled == pc \in {"frames", "regress_x", "regress_y", "regress_z", "slice", "done"}

\* column j of M (entries num / sqrt(rad[j])) has mean 0
MeanZero(M, j) == SumSeq(Col(M.num, j)) = 0

\* column j of M has (population) standard deviation 1:
\* n * sum(num^2) - (sum num)^2 = n^2 * rad[j]
UnitStd(M, j) ==
    Len(M.num) * SumSeq(Sq(Col(M.num, j))) - SumSeq(Col(M.num, j)) * SumSeq(Col(M.num, j))
        = Len(M.num) * Len(M.num) * M.rad[j]

AllZero(M, j) == \A i \in DOMAIN M.num : M.num[i][j] = 0

Constant(M, j) == Cardinality(Range(Col(M.num, j))) = 1

\* the matrix the pipeline's scaler returned for the training rows
PipelineScaledTrain == pipeline.model.coef_from.Z

TrainSum(j) == SumSeq(Tup([i \in DOMAIN split.train |-> X.num[split.train[i]][j]]))

TrainSumSq(j) ==
    SumSeq(Tup([i \in DOMAIN split.train |->
                  X.num[split.train[i]][j] * X.num[split.train[i]][j]]))

\* the same over the evaluation rows
TestSum(j) == SumSeq(Tup([i \in DOMAIN split.test |-> X.num[split.test[i]][j]]))

\* C2.  No leakage: the parameters of the standalone scaler are the count,
\* sums and sums of squares of the training rows alone, and the evaluation
\* rows are transformed with exactly these; the parameters of the pipeline's
\* scaler are those of the expanded training rows alone, and every stored
\* prediction was made from evaluation rows transformed with them.  Both are
\* functions of the training partition, so two runs that share it share them.
C2_NoLeakage ==
    /\ Scaled =>
          /\ scaler.n = Len(split.train)
          /\ \A j \in 1..3 :
                /\ scaler.S[j] = TrainSum(j)
                /\ scaler.D[j] = scaler.n * TrainSumSq(j) - TrainSum(j) * TrainSum(j)
                /\ \A i \in DOMAIN split.test :
                      X_test.num[i][j] =
                          Len(split.train) * X.num[split.test[i]][j] - TrainSum(j)
    /\ pipeline # Unset =>
          /\ pipeline.scaler.n = Len(split.train)
          /\ \A j \in DOMAIN PowersTable[degree + 1] :
                pipeline.scaler.S[j] =
                    SumSeq(Tup([i \in DOMAIN X_train.num |->
                                  Prod(X_train.num[i], PowersTable[degree + 1][j])]))
    /\ \A c \in Targets :
          y_hat[c] # Unset =>
              \A i \in DOMAIN X_test.num : \A j \in DOMAIN PowersTable[degree + 1] :
                  y_hat[c].Z.num[i][j] =
                      pipeline.scaler.n * Prod(X_test.num[i], PowersTable[degree + 1][j])
                          - pipeline.scaler.S[j]

\* the run finished with an evaluation partition whose column means differ
\* from the training partition's
C2_Witness ==
    /\ pc = "done"
    /\ \E j \in 1..3 : Len(split.train) * TestSum(j) # Len(split.test) * TrainSum(j)
    /\ y_hat["z_future"] # Unset

\* ---------------------------------------------------------------- C11
\* The regression cell with degree = 0 in place of degree = 2 and the
\* prediction made on the training set the pipeline was just fitted on.
RegressDegreeZero ==
    /\ pc = "regress_x"
    /\ \E target \in Targets :
          /\ pipeline' = Pipeline_fit(0, X_train, Col(Y_train.num, TargetColumn[target]),
                                      target)
          /\ y_hat' = [y_hat EXCEPT ![target] = Pipeline_predict(pipeline', X_train)]
    /\ pc' = "predicted_train"
    /\ UNCHANGED <<w0, t, sigma, rho, beta, sol, odeint_istate, warned, sol_rerun,
                   x, y, z, df, X, Y, X_train, X_test, Y_train, Y_test, split,
                   scaler, rmse, x_sliced, z_sliced, call>>

NextDegreeZero ==
    \/ Solve
    \/ TimeSeries
    \/ TrajectoryPlots
    \/ BuildTable
    \/ ShiftDrop
    \/ SplitScale
    \/ ToFrames
    \/ RegressDegreeZero

SpecDegreeZero == Init /\ [][NextDegreeZero]_vars

\* C11.  Degree-0 regression: a pipeline of degree 0 fitted on the training
\* set predicts, for every row of that same training set, the arithmetic
\* mean of the training target (sum of the target column over its length).
C11_DegreeZeroPredictsMean ==
    pc = "predicted_train" =>
        \A c \in Targets :
            y_hat[c] # Unset =>
                /\ y_hat[c].rows = Len(Y_train.num)
                /\ \A i \in 1..y_hat[c].rows :
                      /\ DOMAIN predict_row(y_hat[c], i) = {"num", "den"}
                      /\ predict_row(y_hat[c], i).den > 0
                      /\ predict_row(y_hat[c], i).num * Len(Y_train.num) =
                            SumSeq(Col(Y_train.num, TargetColumn[c]))
                                * predict_row(y_hat[c], i).den

\* a degree-0 pipeline was fitted on several rows whose target is not
\* constant and whose mean is not zero, and predicted on them
C11_Witness ==
    /\ pc = "predicted_train"
    /\ y_hat["y_future"] # Unset
    /\ Len(Y_train.num) >= 3
    /\ \E i, k \in DOMAIN Y_train.num : Y_train.num[i][2] # Y_train.num[k][2]
    /\ SumSeq(Col(Y_train.num, 2)) # 0
    /\ pipeline.degree = 0

\* ---------------------------------------------------------------- C12
\* what the dataset, split, fit, predict and RMSE steps read or assign
numerical == <<w0, t, sigma, rho, beta, sol, df, X, Y, X_train, X_test,
               Y_train, Y_test, split, scaler, pipeline, y_hat, rmse>>

\* the time-series plots, the trajectory plots and animation, and the
\* slices with the comparison animation
Plotting == TimeSeries \/ TrajectoryPlots \/ Slice

\* C12.  Stage outputs are immutable: once the integrator has assigned the
\* trajectory no step changes it, no plotting or animation step changes
\* anything the numerical steps read or assign, and the table the dataset
\* step builds is the one built from the integrator's output and the grid.
C12_TrajectoryImmutable ==
    /\ [][sol # Unset => sol' = sol]_vars
    /\ [][Plotting => UNCHANGED numerical]_vars
    /\ [](pc = "shift" => df = DataFrame(sol, t))
    /\ [](DatasetBuilt => df = dropna(add_future(DataFrame(sol, t))))

\* the whole run went by on a trajectory that is not constant: plots, the
\* dataset, the three fits and the slices
C12_Witness ==
    /\ pc = "done"
    /\ \E k \in DOMAIN sol : sol[k] # sol[1]
    /\ x = Col(sol, 1)
    /\ x_sliced # Unset
    /\ rmse["z_future"] # Unset

\* ---------------------------------------------------------------- C13
\* C13.  Shared pipeline refit ordering: every stored prediction for a
\* target was made by the pipeline while it held the fit for that target
\* (its intercept is that target's training mean), its RMSE was taken
\* against that target's evaluation column, and a later refit changes
\* neither the stored prediction nor the stored RMSE.
C13_PredictionsFromOwnFit ==
    /\ [](\A c \in Targets :
            y_hat[c] # Unset =>
                /\ y_hat[c].by = c
                /\ y_hat[c].intercept =
                      [num |-> SumSeq(Col(Y_train.num, TargetColumn[c])),
                       den |-> Len(Y_train.num)]
                /\ rmse[c] = rmse_of(Col(Y_test.num, TargetColumn[c]), y_hat[c]))
    /\ [][\A c \in Targets :
            y_hat[c] # Unset => y_hat'[c] = y_hat[c] /\ rmse'[c] = rmse[c]]_vars

\* all three cells ran on the one pipeline, which now holds the z fit, and
\* the x and z targets have different training means
C13_Witness ==
    /\ pc = "done"
    /\ \A c \in Targets : y_hat[c] # Unset /\ rmse[c] # Unset
    /\ pipeline.model.target = "z_future"
    /\ y_hat["x_future"].intercept # y_hat["z_future"].intercept

\* ---------------------------------------------------------------- C14
\* Feature rows Xs and target rows Ys, taken at the positions ind of the
\* dataset, pair up by position: row i of both comes from the trajectory
\* step whose label the dataset row ind[i] carries; the target is the state
\* one step later and the feature is that step's state, standardized.
RowAligned(Xs, Ys, ind) ==
    /\ Len(Xs.num) = Len(ind)
    /\ Len(Ys.num) = Len(ind)
    /\ \A i \in DOMAIN ind :
          /\ Ys.idx[i] = df[ind[i]].idx
          /\ Ys.num[i] = sol[df[ind[i]].idx + 2]
          /\ \A j \in 1..3 :
                Xs.num[i][j] = scaler.n * sol[df[ind[i]].idx + 1][j] - scaler.S[j]

\* C14.  Row alignment through the modelling stage: after the split, the
\* scaling and the conversion to tables, training features and targets pair
\* up by position on the same trajectory step, and so do the evaluation
\* ones; the row counts agree at fit (features and target), at predict (one
\* prediction per evaluation row) and at RMSE (truth and prediction).
C14_RowsAligned ==
    /\ Scaled =>
          /\ RowAligned(X_train, Y_train, split.train)
          /\ RowAligned(X_test, Y_test, split.test)
    /\ pipeline # Unset =>
          /\ pipeline.model.n_samples = Len(pipeline.model.coef_from.yv)
          /\ pipeline.model.n_samples = Len(Y_train.num)
          /\ pipeline.model.coef_from.yv =
                Col(Y_train.num, TargetColumn[pipeline.model.target])
    /\ \A c \in Targets :
          y_hat[c] # Unset =>
              /\ y_hat[c].rows = Len(Y_test.num)
              /\ Len(y_hat[c].Z.num) = Len(Y_test.num)
              /\ Len(rmse[c].y_true) = rmse[c].y_pred.rows
              /\ rmse[c].y_true = Col(Y_test.num, TargetColumn[c])

\* a fit happened on a training set whose rows are not in trajectory order,
\* with at least three training rows, on a trajectory that is not constant
C14_Witness ==
    /\ pc = "regress_y"
    /\ \E i \in DOMAIN Y_train.idx : i > 1 /\ Y_train.idx[i] < Y_train.idx[i - 1]
    /\ Len(Y_train.num) >= 3 /\ Len(Y_test.num) >= 1
    /\ \E k \in DOMAIN sol : sol[k] # sol[1]
    /\ y_hat["x_future"] # Unset

====
